---- MODULE Spec2Model ----
(***************************************************************************)
(* Model of the three dump-fixing scripts of src/database:                 *)
(*   fix_match_games.py, fix_match_lineups.py and fix_dump.py.             *)
(*                                                                         *)
(* A text is a sequence of lexemes (strings).  Every literal of the        *)
(* scripts' regular expressions and str.replace calls falls on lexeme      *)
(* boundaries, so matching lexeme by lexeme is what the character-level    *)
(* regular expressions do on these texts.  A character class followed by   *)
(* a literal outside that class (e.g. [^,]+ followed by ",") has exactly   *)
(* one way to match, the maximal run, so no backtracking is modelled.      *)
(***************************************************************************)
EXTENDS Integers, Sequences, FiniteSets, TLC

(* ----------------------------- bounds ---------------------------------- *)
MaxRows == 3    \* rows of the match_games / match_lineups statement
MaxStmts == 2   \* statements of a document given to fix_dump

(* ------------------------- sequence helpers ---------------------------- *)
RECURSIVE Join(_, _)
Join(ss, sep) ==
  IF ss = <<>> THEN <<>>
  ELSE IF Len(ss) = 1 THEN ss[1]
  ELSE ss[1] \o sep \o Join(Tail(ss), sep)

Drop(s, n) == SubSeq(s, n + 1, Len(s))

IsPrefixAt(s, i, lit) ==
  /\ i + Len(lit) - 1 <= Len(s)
  /\ \A k \in 1..Len(lit) : s[i + k - 1] = lit[k]

Min(S) == CHOOSE x \in S : \A y \in S : x <= y

\* Number of occurrences of lexeme t in s (str.count).
CountTok(s, t) == Cardinality({i \in 1..Len(s) : s[i] = t})

RECURSIVE SeqsUpTo(_, _)
SeqsUpTo(S, n) ==
  IF n = 0 THEN {<<>>}
  ELSE LET P == SeqsUpTo(S, n - 1)
       IN P \cup {Append(p, x) : p \in {q \in P : Len(q) = n - 1}, x \in S}

NonEmptySeqs(S, n) == SeqsUpTo(S, n) \ {<<>>}

(* ------------------------------ lexemes -------------------------------- *)
TAB == "\t"
NL == "\n"
SP == " "
WS == {SP, TAB, NL}                      \* \s, and what str.strip() removes
DigitToks == {"2", "3"}                  \* lexemes made of \d only
HexToks == {"a1", "b2", "2", "3"}        \* lexemes made of [a-f0-9-] only
BoolToks == {"true", "false"}

Q(x) == <<"'", x, "'">>                  \* single-quoted SQL string
Sep == <<",", SP>>                       \* ", "
Id(n) == "\"" \o n \o "\""               \* double-quoted identifier

InsertInto(table) == "INSERT INTO \"public\".\"" \o table \o "\" "

(* --------------------- regular-expression elements --------------------- *)
(* A pattern is a sequence of elements; "cap" marks a capturing group.     *)
Lit(t) == [k |-> "lit", t |-> t, cap |-> FALSE]            \* one literal lexeme
PlusNot(X) == [k |-> "plusnot", s |-> X, cap |-> TRUE]     \* ([^X]+)
PlusIn(S) == [k |-> "plusin", s |-> S, cap |-> TRUE]       \* ([S]+)
PlusInNC(S) == [k |-> "plusin", s |-> S, cap |-> FALSE]    \* [S]+
OneIn(S) == [k |-> "onein", s |-> S, cap |-> TRUE]         \* (a|b)
Lits(ts) == [i \in 1..Len(ts) |-> Lit(ts[i])]

\* End of the maximal run of lexemes starting at p that satisfy the class.
\* (p - 1 when the run is empty)
InClass(el, t) == IF el.k = "plusnot" THEN t \notin el.s ELSE t \in el.s
RECURSIVE RunEnd(_, _, _)
RunEnd(s, p, el) ==
  IF p <= Len(s) /\ InClass(el, s[p]) THEN RunEnd(s, p + 1, el) ELSE p - 1

NoMatch == [ok |-> FALSE, end |-> 0, g |-> <<>>]

\* Match pat[j..] at position p of s; g are the groups captured so far.
\* The result's end is the index of the last lexeme matched.
RECURSIVE MatchFrom(_, _, _, _, _)
MatchFrom(s, p, pat, j, g) ==
  IF j > Len(pat) THEN [ok |-> TRUE, end |-> p - 1, g |-> g]
  ELSE LET el == pat[j] IN
    IF el.k = "lit"
    THEN IF p <= Len(s) /\ s[p] = el.t
         THEN MatchFrom(s, p + 1, pat, j + 1, g)
         ELSE NoMatch
    ELSE IF el.k = "onein"
    THEN IF p <= Len(s) /\ s[p] \in el.s
         THEN MatchFrom(s, p + 1, pat, j + 1, Append(g, <<s[p]>>))
         ELSE NoMatch
    ELSE LET e == RunEnd(s, p, el) IN
         IF e < p THEN NoMatch
         ELSE MatchFrom(s, e + 1, pat, j + 1,
                        IF el.cap THEN Append(g, SubSeq(s, p, e)) ELSE g)

MatchAt(s, p, pat) == MatchFrom(s, p, pat, 1, <<>>)

\* Leftmost match of pat in s starting at or after position p (re.search /
\* one step of re.finditer); start = 0 when there is none.
SearchFrom(s, p, pat) ==
  LET hits == {q \in p..Len(s) : MatchAt(s, q, pat).ok} IN
  IF hits = {} THEN [ok |-> FALSE, start |-> 0, end |-> 0, g |-> <<>>]
  ELSE LET q == Min(hits)
           m == MatchAt(s, q, pat)
       IN [ok |-> TRUE, start |-> q, end |-> m.end, g |-> m.g]

\* Number of non-overlapping matches of pat in s (len(re.findall(...))).
RECURSIVE CountMatches(_, _, _)
CountMatches(s, p, pat) ==
  LET m == SearchFrom(s, p, pat) IN
  IF m.ok THEN 1 + CountMatches(s, m.end + 1, pat) ELSE 0

\* str.replace(old, new) / re.sub of a literal pattern: every leftmost,
\* non-overlapping occurrence of the lexeme sequence old becomes new.
RECURSIVE ReplaceAll(_, _, _)
ReplaceAll(s, old, new) ==
  LET occ == {p \in 1..Len(s) : IsPrefixAt(s, p, old)} IN
  IF occ = {} THEN s
  ELSE LET p == Min(occ)
       IN SubSeq(s, 1, p - 1) \o new \o ReplaceAll(Drop(s, p + Len(old) - 1), old, new)

\* str.strip(): leading and trailing whitespace removed.
RECURSIVE LStrip(_)
LStrip(s) == IF s # <<>> /\ Head(s) \in WS THEN LStrip(Tail(s)) ELSE s
RECURSIVE RStrip(_)
RStrip(s) ==
  IF s # <<>> /\ s[Len(s)] \in WS THEN RStrip(SubSeq(s, 1, Len(s) - 1)) ELSE s
Strip(s) == RStrip(LStrip(s))

\* Index of the first occurrence of lexeme t in s, 0 if none (str.find).
FindTok(s, t, p) ==
  LET at == {q \in p..Len(s) : s[q] = t} IN IF at = {} THEN 0 ELSE Min(at)

(* ------------------- locating the Statement Block ---------------------- *)
\* Variant: the header of the other script's table, whatever table is asked.
HeaderPatternCopied(table) ==
  <<Lit(InsertInto("match_lineups")), Lit("("),
    [k |-> "plusnot", s |-> {")"}, cap |-> FALSE],
    Lit(")"), Lit(SP), Lit("VALUES")>>

\* INSERT INTO "public"\."<table>" \([^)]+\) VALUES
HeaderPattern(table) ==
  <<Lit(InsertInto(table)), Lit("("),
    [k |-> "plusnot", s |-> {")"}, cap |-> FALSE],
    Lit(")"), Lit(SP), Lit("VALUES")>>

\* (?=\n\n--|$) at the position just after lexeme e: a blank line followed
\* by a comment marker, the end of the text, or the newline that ends it.
Lookahead(s, e) ==
  \/ IsPrefixAt(s, e + 1, <<NL, NL, "--">>)
  \/ e = Len(s)
  \/ e = Len(s) - 1 /\ s[Len(s)] = NL

\* Variant: a greedy ([\s\S]*) runs to the last position the lookahead accepts.
GreedyEnd(s, e) ==
  LET ok == {q \in e..Len(s) : Lookahead(s, q)} IN CHOOSE x \in ok : \A y \in ok : y <= x

\* The lazy ([\s\S]*?) stops at the first position the lookahead accepts.
LazyEnd(s, e) == Min({q \in e..Len(s) : Lookahead(s, q)})

\* re.search(r'INSERT INTO "public"\."<table>" \([^)]+\) VALUES\s*
\*             ([\s\S]*?)(?=\n\n--|$)', content): the leftmost header, the
\* whitespace after it, then the shortest text up to the lookahead.
ReSearch(s, table) ==
  LET h == SearchFrom(s, 1, HeaderPattern(table)) IN
  IF ~h.ok THEN [found |-> FALSE, start |-> 0, end |-> 0]
  ELSE LET w == RunEnd(s, h.end + 1, PlusInNC(WS))
       IN [found |-> TRUE, start |-> h.start, end |-> LazyEnd(s, w)]

Group0(s, m) == SubSeq(s, m.start, m.end)          \* match.group(0)

\* '{g[i]}' of an f-string: the captured text between new quotes
Q1(g, i) == <<"'">> \o g[i] \o <<"'">>

(* --------------------------- fix_match_games --------------------------- *)
QuotedField == <<Lit("'"), PlusNot({"'"}), Lit("'")>>     \* '([^']+)'
RestField == <<PlusNot({","})>>                           \* ([^,]+)
BoolField == <<OneIn(BoolToks)>>                          \* (false|true)
NumField == <<PlusIn(DigitToks)>>                         \* (\d+)

\* Variant: confirmed_at (field 14) accepted only as a quoted string.
OldFieldsQuotedConfirmedAt ==
  <<QuotedField, QuotedField, NumField, RestField, RestField, RestField,
    RestField, QuotedField, QuotedField, BoolField, BoolField, BoolField,
    BoolField, QuotedField, BoolField, QuotedField, QuotedField>>

\* The 17 fields of row_pattern, in order.
OldFields ==
  <<QuotedField, QuotedField, NumField, RestField, RestField, RestField,
    RestField, QuotedField, QuotedField, BoolField, BoolField, BoolField,
    BoolField, RestField, BoolField, QuotedField, QuotedField>>

\* \( f1, f2, ..., f17 \)([,;])  -- the row grammar without its leading tab
RowBody(fields) ==
  <<Lit("(")>> \o Join(fields, Lits(Sep)) \o <<Lit(")"), OneIn({",", ";"})>>

\* row_pattern: \t\( ... \)([,;])
RowPattern == <<Lit(TAB)>> \o RowBody(OldFields)

NewColumnNames ==
  <<"id", "match_id", "game_number", "home_player_id", "away_player_id",
    "winner_team_id", "winner_player_id", "home_action", "away_action",
    "break_and_run", "golden_break", "confirmed_at", "is_tiebreaker",
    "created_at", "updated_at", "game_type">>

ColumnList(names) ==
  <<"(">> \o Join([i \in 1..Len(names) |-> <<Id(names[i])>>], Sep) \o <<")">>

InsertHeader(table, names) ==
  <<InsertInto(table)>> \o ColumnList(names) \o <<SP, "VALUES">>

NewColumns == InsertHeader("match_games", NewColumnNames)

\* values_block[values_block.find('VALUES') + 6:].strip()
ValuesPart(values_block) ==
  Strip(Drop(values_block, FindTok(values_block, "VALUES", 1)))

\* Variant: the two groups after golden_break are kept and the two after
\* them dropped (g[11], g[12] in place of g[13], g[14]).
NewRowShifted(g) ==
  <<TAB, "(">> \o
  Join(<<Q1(g, 1), Q1(g, 2), g[3], g[4], g[5], g[6], g[7], Q1(g, 8), Q1(g, 9),
         g[10], g[11], g[12], g[13], Q1(g, 16), Q1(g, 17), Q("eight_ball")>>, Sep)
  \o <<")">> \o g[18]

\* Variant: only confirmed_by_home is dropped, confirmed_by_away is kept.
NewRowKeepsAway(g) ==
  <<TAB, "(">> \o
  Join(<<Q1(g, 1), Q1(g, 2), g[3], g[4], g[5], g[6], g[7], Q1(g, 8), Q1(g, 9),
         g[10], g[11], g[13], g[14], g[15], Q1(g, 16), Q1(g, 17), Q("eight_ball")>>, Sep)
  \o <<")">> \o g[18]

\* new_row: the f-string over the groups g[0..17] (here g[1..18]).
NewRow(g) ==
  <<TAB, "(">> \o
  Join(<<Q1(g, 1), Q1(g, 2), g[3], g[4], g[5], g[6], g[7], Q1(g, 8), Q1(g, 9),
         g[10], g[11], g[14], g[15], Q1(g, 16), Q1(g, 17), Q("eight_ball")>>, Sep)
  \o <<")">> \o g[18]

\* fixed_sql = new_columns + '\n' + '\n'.join(rows), inside the written file
GamesFile(rs) ==
  <<"-- Fixed match_games data", NL,
    "-- Removed confirmed_by_home/away boolean columns, added game_type", NL, NL>>
  \o NewColumns \o <<NL>> \o Join(rs, <<NL>>) \o <<NL>>

(* -------------------------- fix_match_lineups -------------------------- *)
\* values_block.replace('"team_handicap"', '"home_team_modifier"')
FixedLineups(values_block) ==
  ReplaceAll(values_block, <<Id("team_handicap")>>, <<Id("home_team_modifier")>>)

LineupsFile(values_block) ==
  <<"-- Fixed match_lineups data", NL,
    "-- Renamed team_handicap to home_team_modifier", NL, NL>>
  \o FixedLineups(values_block) \o <<NL>>

\* len(re.findall(r"\t\('[a-f0-9-]+',", values_block))
LineupRowPattern ==
  <<Lit(TAB), Lit("("), Lit("'"), PlusInNC(HexToks), Lit("'"), Lit(",")>>
RowCount(values_block) == CountMatches(values_block, 1, LineupRowPattern)

(* ------------------------------ fix_dump ------------------------------- *)
OldOperatorColumns ==
  <<"id", "member_id", "organization_name", "organization_address",
    "organization_city", "organization_state", "organization_zip_code",
    "contact_disclaimer_acknowledged", "league_email", "email_visibility",
    "league_phone", "phone_visibility", "stripe_customer_id", "payment_method_id",
    "card_last4", "card_brand", "expiry_month", "expiry_year", "billing_zip",
    "payment_verified", "created_at", "updated_at", "profanity_filter_enabled">>

NewOrganizationColumns ==
  <<"id", "created_by", "organization_name", "organization_address",
    "organization_city", "organization_state", "organization_zip_code",
    "organization_email", "organization_email_visibility", "organization_phone",
    "organization_phone_visibility", "stripe_customer_id", "payment_method_id",
    "card_last4", "card_brand", "expiry_month", "expiry_year", "billing_zip",
    "payment_verified", "created_at", "updated_at", "profanity_filter_enabled">>

league_operators_pattern == InsertHeader("league_operators", OldOperatorColumns)
league_operators_replacement == InsertHeader("organizations", NewOrganizationColumns)

\* re.sub(league_operators_pattern, league_operators_replacement, content)
SubLeagueOperators(s) ==
  ReplaceAll(s, league_operators_pattern, league_operators_replacement)

\* Defined by the script and never applied; it returns the match unchanged.
fix_league_operator_values(full_match) == full_match

ReplaceVenues(s) ==
  ReplaceAll(s, <<Id("created_by_operator_id")>>, <<Id("organization_id")>>)
\* Variant: replace(old, new, 1), only the first occurrence.
ReplaceOperatorOnce(s) ==
  LET p == FindTok(s, Id("operator_id"), 1) IN
  IF p = 0 THEN s
  ELSE SubSeq(s, 1, p - 1) \o <<Id("organization_id")>> \o Drop(s, p)

ReplaceOperator(s) ==
  ReplaceAll(s, <<Id("operator_id")>>, <<Id("organization_id")>>)
ReplaceAssigned(s) ==
  ReplaceAll(s, <<Id("assigned_operator_id")>>, <<Id("assigned_organization_id")>>)

(* ------------------------- input documents ----------------------------- *)
OldGameColumns ==
  <<"id", "match_id", "game_number", "home_player_id", "away_player_id",
    "winner_team_id", "winner_player_id", "home_action", "away_action",
    "break_and_run", "golden_break", "confirmed_by_home", "confirmed_by_away",
    "confirmed_at", "is_tiebreaker", "created_at", "updated_at">>

LineupColumns ==
  <<"id", "match_id", "team_id", "player1_id", "player1_handicap", "player2_id",
    "player2_handicap", "player3_id", "player3_handicap", "locked", "locked_at",
    "created_at", "updated_at", "team_handicap">>

Null == <<"NULL">>
True == <<"true">>
False == <<"false">>

\* Field values of the rows a dump can hold, by kind of row.
GameFields(kind) ==
  CASE kind = "A" ->    \* the row of the documentation, ", " between fields
         <<Q("a1"), Q("m1"), <<"2">>, Q("p1"), Q("p2"), Q("t1"), Q("p1"),
           Q("break"), Q("rack"), False, False, True, True, Null, False,
           Q("2025-01-01"), Q("2025-01-01")>>
    [] kind = "B" ->    \* no players recorded yet, confirmation time set
         <<Q("b2"), Q("m1"), <<"3">>, Null, Null, Null, Null,
           Q("rack"), Q("break"), True, False, False, True, Q("2025-01-02"), True,
           Q("2025-01-02"), Q("2025-01-02")>>
    [] kind = "X" ->    \* as A, but written 'a1','m1' (no space after a comma
                        \* between two quoted fields)
         <<Q("a1"), Q("m1"), <<"2">>, Q("p1"), Q("p2"), Q("t1"), Q("p1"),
           Q("break"), Q("rack"), False, False, True, True, Null, False,
           Q("2025-01-01"), Q("2025-01-01")>>
    [] kind = "N" ->    \* confirmed_by_home is NULL instead of a boolean
         <<Q("a1"), Q("m1"), <<"3">>, Q("p1"), Q("p2"), Q("t1"), Q("p2"),
           Q("break"), Q("rack"), False, True, Null, True, Null, False,
           Q("2025-01-01"), Q("2025-01-01")>>

GameRowKinds == {"A", "B", "X", "N"}

IsQuoted(f) == Head(f) = "'"

\* The separator written between fields i and i+1 of a row.
FieldSep(kind, fv, i) ==
  IF kind = "X" /\ IsQuoted(fv[i]) /\ IsQuoted(fv[i + 1]) THEN <<",">> ELSE Sep

RECURSIVE JoinFields(_, _, _)
JoinFields(kind, fv, i) ==
  IF i = Len(fv) THEN fv[i]
  ELSE fv[i] \o FieldSep(kind, fv, i) \o JoinFields(kind, fv, i + 1)

LineupFields(kind) ==
  IF kind = "A"
  THEN <<Q("a1"), Q("m1"), Q("t1"), Q("p1"), <<"3">>, Q("p2"), <<"2">>, Q("p1"),
         <<"3">>, True, Null, Q("2025-01-01"), Q("2025-01-01"), <<"2">>>>
  ELSE <<Q("b2"), Q("m1"), Q("t1"), Q("p2"), <<"2">>, Q("p1"), <<"3">>, Q("p2"),
         <<"2">>, False, Null, Q("2025-01-02"), Q("2025-01-02"), <<"3">>>>

\* Rows one per line; "," after every row but the last, ";" after the last.
RowLines(rowTexts) ==
  Join([i \in 1..Len(rowTexts) |->
          rowTexts[i] \o <<IF i = Len(rowTexts) THEN ";" ELSE ",">>], <<NL>>)

RowNoTerm(kind, fv) == <<TAB, "(">> \o JoinFields(kind, fv, 1) \o <<")">>

Statement(table, columns, rowTexts) ==
  InsertHeader(table, columns) \o <<NL>> \o RowLines(rowTexts)

GamesStatement(kinds) ==
  Statement("match_games", OldGameColumns,
            [i \in 1..Len(kinds) |-> RowNoTerm(kinds[i], GameFields(kinds[i]))])

LineupsStatement ==
  Statement("match_lineups", LineupColumns,
            <<RowNoTerm("A", LineupFields("A")), RowNoTerm("B", LineupFields("B"))>>)

Preamble == <<"--", SP, "data dump", NL, NL>>
CommentSep == <<NL, NL, "--", NL, NL>>     \* blank line, comment line, blank line
BlankSep == <<NL, NL>>                       \* blank line only
SepText(sep) == IF sep = "comment" THEN CommentSep ELSE BlankSep
Tails == {<<>>, <<NL>>, <<NL, NL, "--", NL>>}

\* Documents for fix_match_games / fix_match_lineups: a match_games
\* statement, a match_lineups statement, or both in either order.
RowDocs ==
  LET G == {GamesStatement(ks) : ks \in NonEmptySeqs(GameRowKinds, MaxRows)}
      L == LineupsStatement
  IN  {Preamble \o g \o t : g \in G, t \in Tails}
      \cup {Preamble \o L \o t : t \in Tails}
      \cup {Preamble \o g \o SepText(sp) \o L \o t :
              g \in G, sp \in {"comment", "blank"}, t \in Tails}
      \cup {Preamble \o L \o SepText(sp) \o g \o t :
              g \in G, sp \in {"comment", "blank"}, t \in Tails}

\* Statements of the tables fix_dump renames columns of.
DumpStatement(kind) ==
  CASE kind = "leagues" ->
         Statement("leagues", <<"id", "operator_id", "name">>,
                   <<<<TAB, "(">> \o Join(<<Q("a1"), Q("b2"), Q("m1")>>, Sep) \o <<")">>>>)
    [] kind = "venues" ->
         Statement("venues", <<"id", "created_by_operator_id", "name">>,
                   <<<<TAB, "(">> \o Join(<<Q("a1"), Q("b2"), Q("m1")>>, Sep) \o <<")">>>>)
    [] kind = "blackout" ->
         Statement("operator_blackout_preferences", <<"id", "operator_id">>,
                   <<<<TAB, "(">> \o Join(<<Q("a1"), Q("b2")>>, Sep) \o <<")">>>>)
    [] kind = "reports" ->
         Statement("user_reports", <<"id", "assigned_operator_id">>,
                   <<<<TAB, "(">> \o Join(<<Q("a1"), Null>>, Sep) \o <<")">>>>)
    [] kind = "staff" ->    \* a table that already has an organization_id column
         Statement("organization_staff", <<"id", "organization_id">>,
                   <<<<TAB, "(">> \o Join(<<Q("a1"), Q("b2")>>, Sep) \o <<")">>>>)
    [] kind = "operators" ->   \* one row, one value per declared column
         Statement("league_operators", OldOperatorColumns,
                   <<<<TAB, "(">> \o
                     Join([i \in 1..Len(OldOperatorColumns) |->
                             IF i <= 2 THEN Q("a1") ELSE IF i = 8 THEN True ELSE Null],
                          Sep) \o <<")">>>>)

DumpKinds == {"leagues", "venues", "blackout", "reports", "staff", "operators"}

DumpDocs ==
  {Preamble \o Join([i \in 1..Len(ks) |-> DumpStatement(ks[i])], CommentSep) \o <<NL>> :
     ks \in NonEmptySeqs(DumpKinds, MaxStmts)}

(* ------------------------------- state --------------------------------- *)
DumpFile == "local-data-dump.sql"
GamesOut == "restore_match_games.sql"
LineupsOut == "restore_match_lineups.sql"
DumpOut == "local-data-dump-fixed.sql"
Scripts == {"fix_match_games", "fix_match_lineups", "fix_dump"}

VARIABLES
  script,       \* the script being run
  fs,           \* the files of the working directory: name -> text
  pc,           \* position of the script
  content,      \* content = f.read()
  match,        \* the result of re.search
  values_part,  \* fix_match_games: the stripped text after VALUES
  pos,          \* fix_match_games: where finditer resumes in values_part
  rows,         \* fix_match_games: the rows built so far
  stdout        \* what the script has printed

vars == <<script, fs, pc, content, match, values_part, pos, rows, stdout>>

NoSearch == [found |-> FALSE, start |-> 0, end |-> 0]

WriteFile(files, name, text) ==
  [n \in DOMAIN files \cup {name} |-> IF n = name THEN text ELSE files[n]]

Init ==
  /\ script \in Scripts
  /\ \E doc \in (IF script = "fix_dump" THEN DumpDocs ELSE RowDocs) :
       fs = [n \in {DumpFile} |-> doc]
  /\ pc = "start"
  /\ content = <<>>
  /\ match = NoSearch
  /\ values_part = <<>>
  /\ pos = 1
  /\ rows = <<>>
  /\ stdout = <<>>

\* print(f"..."): the format text and the values formatted into it
Printed(text, args) == [text |-> text, args |-> args]

GamesNotFound == Printed("Could not find match_games INSERT statement", <<>>)
GamesNoRows == Printed("No rows matched the pattern", <<>>)
GamesCreated(n) == Printed("Created restore_match_games.sql with {len(rows)} rows", <<n>>)
LineupsNotFound == Printed("Could not find match_lineups INSERT statement", <<>>)
LineupsCreated(n) == Printed("Created restore_match_lineups.sql with {row_count} rows", <<n>>)
DumpNotes ==
  <<Printed("Created local-data-dump-fixed.sql", <<>>),
    Printed("Note: match_games confirmed_by fields need manual fix (boolean->uuid)", <<>>),
    Printed("Note: league_operators->organizations needs contact_disclaimer_acknowledged removed from values", <<>>)>>

(* --------------------------- fix_match_games --------------------------- *)
GamesRead ==
  /\ script = "fix_match_games" /\ pc = "start"
  /\ content' = fs[DumpFile]
  /\ pc' = "search"
  /\ UNCHANGED <<script, fs, match, values_part, pos, rows, stdout>>

\* match = re.search(...); if match: values_part = ...; rows = []
\* else: print("Could not find ...")
GamesSearch ==
  /\ script = "fix_match_games" /\ pc = "search"
  /\ LET m == ReSearch(content, "match_games") IN
       /\ match' = m
       /\ IF m.found
          THEN /\ values_part' = ValuesPart(Group0(content, m))
               /\ pos' = 1
               /\ rows' = <<>>
               /\ pc' = "rows"
               /\ UNCHANGED stdout
          ELSE /\ stdout' = Append(stdout, GamesNotFound)
               /\ pc' = "done"
               /\ UNCHANGED <<values_part, pos, rows>>
  /\ UNCHANGED <<script, fs, content>>

\* One iteration of: for row_match in row_pattern.finditer(values_part)
GamesRow ==
  /\ script = "fix_match_games" /\ pc = "rows"
  /\ LET m == SearchFrom(values_part, pos, RowPattern) IN
       IF m.ok
       THEN /\ rows' = Append(rows, NewRow(m.g))
            /\ pos' = m.end + 1
            /\ UNCHANGED pc
       ELSE /\ pc' = "emit"
            /\ UNCHANGED <<rows, pos>>
  /\ UNCHANGED <<script, fs, content, match, values_part, stdout>>

\* Variant: the file is written and reported without the "if rows" test.
GamesEmitAlways ==
  /\ script = "fix_match_games" /\ pc = "emit"
  /\ fs' = WriteFile(fs, GamesOut, GamesFile(rows))
  /\ stdout' = Append(stdout, GamesCreated(Len(rows)))
  /\ pc' = "done"
  /\ UNCHANGED <<script, content, match, values_part, pos, rows>>

\* if rows: write restore_match_games.sql and report; else report no rows
GamesEmit ==
  /\ script = "fix_match_games" /\ pc = "emit"
  /\ IF rows # <<>>
     THEN /\ fs' = WriteFile(fs, GamesOut, GamesFile(rows))
          /\ stdout' = Append(stdout, GamesCreated(Len(rows)))
     ELSE /\ stdout' = Append(stdout, GamesNoRows)
          /\ UNCHANGED fs
  /\ pc' = "done"
  /\ UNCHANGED <<script, content, match, values_part, pos, rows>>

(* -------------------------- fix_match_lineups -------------------------- *)
LineupsRead ==
  /\ script = "fix_match_lineups" /\ pc = "start"
  /\ content' = fs[DumpFile]
  /\ pc' = "search"
  /\ UNCHANGED <<script, fs, match, values_part, pos, rows, stdout>>

LineupsSearch ==
  /\ script = "fix_match_lineups" /\ pc = "search"
  /\ LET m == ReSearch(content, "match_lineups") IN
       /\ match' = m
       /\ IF m.found
          THEN /\ pc' = "fix"
               /\ UNCHANGED stdout
          ELSE /\ stdout' = Append(stdout, LineupsNotFound)
               /\ pc' = "done"
  /\ UNCHANGED <<script, fs, content, values_part, pos, rows>>

\* The body of "if match:": rename, write the file, count and report.
LineupsFix ==
  /\ script = "fix_match_lineups" /\ pc = "fix"
  /\ LET values_block == Group0(content, match) IN
       /\ fs' = WriteFile(fs, LineupsOut, LineupsFile(values_block))
       /\ stdout' = Append(stdout, LineupsCreated(RowCount(values_block)))
  /\ pc' = "done"
  /\ UNCHANGED <<script, content, match, values_part, pos, rows>>

(* ------------------------------ fix_dump ------------------------------- *)
DumpRead ==
  /\ script = "fix_dump" /\ pc = "start"
  /\ content' = fs[DumpFile]
  /\ pc' = "sub"
  /\ UNCHANGED <<script, fs, match, values_part, pos, rows, stdout>>

\* content = re.sub(league_operators_pattern, ..., content)
DumpSub ==
  /\ script = "fix_dump" /\ pc = "sub"
  /\ content' = SubLeagueOperators(content)
  /\ pc' = "venues"
  /\ UNCHANGED <<script, fs, match, values_part, pos, rows, stdout>>

\* content = content.replace('"created_by_operator_id"', ...)
DumpVenues ==
  /\ script = "fix_dump" /\ pc = "venues"
  /\ content' = ReplaceVenues(content)
  /\ pc' = "operator"
  /\ UNCHANGED <<script, fs, match, values_part, pos, rows, stdout>>

\* content = content.replace('"operator_id"', ...)
DumpOperator ==
  /\ script = "fix_dump" /\ pc = "operator"
  /\ content' = ReplaceOperator(content)
  /\ pc' = "assigned"
  /\ UNCHANGED <<script, fs, match, values_part, pos, rows, stdout>>

\* content = content.replace('"assigned_operator_id"', ...)
DumpAssigned ==
  /\ script = "fix_dump" /\ pc = "assigned"
  /\ content' = ReplaceAssigned(content)
  /\ pc' = "write"
  /\ UNCHANGED <<script, fs, match, values_part, pos, rows, stdout>>

DumpWrite ==
  /\ script = "fix_dump" /\ pc = "write"
  /\ fs' = WriteFile(fs, DumpOut, content)
  /\ stdout' = stdout \o DumpNotes
  /\ pc' = "done"
  /\ UNCHANGED <<script, content, match, values_part, pos, rows>>

Next ==
  \/ GamesRead \/ GamesSearch \/ GamesRow \/ GamesEmit
  \/ LineupsRead \/ LineupsSearch \/ LineupsFix
  \/ DumpRead \/ DumpSub \/ DumpVenues \/ DumpOperator \/ DumpAssigned \/ DumpWrite

Spec == Init /\ [][Next]_vars

(* ====================== reading texts back ============================= *)
(* What the properties below read off a text, without the scripts' own     *)
(* row pattern matching: lines, and the values of a row split at the       *)
(* commas that lie outside quotes.                                         *)
Range(f) == {f[i] : i \in DOMAIN f}

RECURSIVE SplitLines(_)
SplitLines(s) ==
  LET p == FindTok(s, NL, 1) IN
  IF p = 0 THEN <<s>> ELSE <<SubSeq(s, 1, p - 1)>> \o SplitLines(Drop(s, p))

IsRowLine(l) == Len(l) >= 2 /\ l[1] = TAB /\ l[2] = "("

\* The row lines of a text, in order.
RowLinesOf(s) == SelectSeq(SplitLines(s), IsRowLine)

\* The values of a row line: the text between "(" and the last ")" split
\* at top-level commas; each value keeps the blank written before it.
TopCommas(inner) ==
  {i \in 1..Len(inner) :
     inner[i] = "," /\ Cardinality({j \in 1..(i - 1) : inner[j] = "'"}) % 2 = 0}

RECURSIVE CutAt(_, _, _)
CutAt(inner, from, cuts) ==
  IF cuts = {} THEN <<SubSeq(inner, from, Len(inner))>>
  ELSE LET c == Min(cuts)
       IN <<SubSeq(inner, from, c - 1)>> \o CutAt(inner, c + 1, cuts \ {c})

Values(l) == LET inner == SubSeq(l, 3, Len(l) - 2) IN CutAt(inner, 1, TopCommas(inner))
Terminator(l) == l[Len(l)]

\* The declared columns of the first INSERT header at or after position p.
ColumnsAt(s, p) ==
  LET open == FindTok(s, "(", p)
      close == FindTok(s, ")", p)
  IN SelectSeq(SubSeq(s, open + 1, close - 1), LAMBDA t : t \notin {",", SP})

\* A row line satisfies the 17-field Old Schema grammar.
SatisfiesOld(l) ==
  LET r == LStrip(l)
      m == MatchAt(r, 1, RowBody(OldFields))
  IN m.ok /\ m.end = Len(r)

\* The Statement Block located by the script, and its input rows.
Located == script # "fix_dump" /\ pc \notin {"start", "search"} /\ match.found
Block == IF match.found THEN Group0(content, match) ELSE <<>>
InputRows == RowLinesOf(Block)

GamesDone == script = "fix_match_games" /\ pc = "done"
GamesWritten == GamesOut \in DOMAIN fs
WrittenRows == IF GamesWritten THEN RowLinesOf(fs[GamesOut]) ELSE <<>>

RECURSIVE IsSubsequence(_, _)
IsSubsequence(a, b) ==
  IF a = <<>> THEN TRUE
  ELSE IF b = <<>> THEN FALSE
  ELSE IF Head(a) = Head(b) THEN IsSubsequence(Tail(a), Tail(b))
  ELSE IsSubsequence(a, Tail(b))

(* ============================ properties =============================== *)

\* C1: when fix_match_games has located the match_games block, the number
\* of rows written to restore_match_games.sql equals the number of input
\* rows of the block that satisfy the 17-field grammar, the first row after
\* VALUES included.
C1_RowCount ==
  (GamesDone /\ match.found) =>
    Len(WrittenRows) = Len(SelectSeq(InputRows, SatisfiesOld))

\* What the mapping makes of an input row: values 1-11 and 14-17 verbatim,
\* the constant 'eight_ball' appended, the row's terminator kept.
Mapped(l) ==
  LET v == Values(l) IN
  IF Len(v) # 17 THEN <<>>
  ELSE <<TAB, "(">>
       \o Join(SubSeq(v, 1, 11) \o SubSeq(v, 14, 17) \o <<<<SP>> \o Q("eight_ball")>>, <<",">>)
       \o <<")", Terminator(l)>>

\* C2: every row emitted by fix_match_games is the transform of one input
\* row (values 1-11 and 14-17 verbatim, 12 and 13 omitted, 'eight_ball'
\* appended); no input row is used twice and the order is kept.
C2_RowsAreTransforms ==
  GamesDone =>
    IsSubsequence(WrittenRows, [i \in 1..Len(InputRows) |-> Mapped(InputRows[i])])

C2_Witness ==
  /\ GamesDone /\ Len(WrittenRows) = 2
  /\ WrittenRows[1] # WrittenRows[2]
  /\ Len(InputRows) = 3

\* The last input row of the block ends with ";" and every other with ",".
WellTerminated(rs) ==
  \A i \in 1..Len(rs) : Terminator(rs[i]) = (IF i = Len(rs) THEN ";" ELSE ",")

\* C3: for an input block whose last row ends with ";" and whose other rows
\* end with ",", the last emitted row ends with ";" and every other emitted
\* row with ",", whichever input rows matched.
C3_Separators ==
  (GamesDone /\ GamesWritten /\ WellTerminated(InputRows)) =>
    \A i \in 1..Len(WrittenRows) :
      Terminator(WrittenRows[i]) = (IF i = Len(WrittenRows) THEN ";" ELSE ",")

\* The New Schema's positional grammar: the old one without fields 12 and
\* 13, and a quoted game_type at the end.
NewFields ==
  SubSeq(OldFields, 1, 11) \o SubSeq(OldFields, 14, 17) \o <<QuotedField>>

ParsesAsNew(l) ==
  LET r == LStrip(l)
      m == MatchAt(r, 1, RowBody(NewFields))
  IN m.ok /\ m.end = Len(r)

\* C7: every emitted row parses against the New Schema's grammar and has
\* as many values as the emitted header declares columns, namely 16.
C7_RoundTrip ==
  (GamesDone /\ GamesWritten) =>
    LET cols == ColumnsAt(fs[GamesOut], 1) IN
    /\ Len(cols) = Len(NewFields)
    /\ \A i \in 1..Len(WrittenRows) :
         /\ ParsesAsNew(WrittenRows[i])
         /\ Len(Values(WrittenRows[i])) = Len(cols)

C7_Witness == GamesDone /\ Len(WrittenRows) = 2

\* C8: with the block located, restore_match_games.sql is written exactly
\* when a row matched; then the reported count is the number of rows
\* written, and otherwise "No rows matched" is reported and nothing written.
C8_ZeroRows ==
  /\ (script = "fix_match_games" /\ pc # "done") => ~GamesWritten
  /\ (GamesDone /\ match.found) =>
       LET matched == CountMatches(values_part, 1, RowPattern) IN
       /\ GamesWritten <=> matched > 0
       /\ GamesWritten => stdout = <<GamesCreated(Len(WrittenRows))>>
       /\ ~GamesWritten => stdout = <<GamesNoRows>>

C8_Witness ==
  GamesDone /\ match.found /\ ~GamesWritten /\ stdout = <<GamesNoRows>>

Target == IF script = "fix_match_games" THEN "match_games" ELSE "match_lineups"
NotFound == IF script = "fix_match_games" THEN GamesNotFound ELSE LineupsNotFound

\* C4: when the document holds no INSERT header of the target table, the
\* script (fix_match_games, fix_match_lineups) goes from the search
\* straight to its end, reports not-found and nothing else, writes no file
\* and leaves local-data-dump.sql as it was read.
C4_NotFound ==
  (script # "fix_dump" /\ CountTok(fs[DumpFile], InsertInto(Target)) = 0) =>
    /\ pc \in {"start", "search", "done"}
    /\ DOMAIN fs = {DumpFile}
    /\ pc # "start" => content = fs[DumpFile]
    /\ pc = "done" => (stdout = <<NotFound>> /\ ~match.found)

C4_Witness ==
  /\ GamesDone
  /\ CountTok(fs[DumpFile], InsertInto("match_games")) = 0
  /\ CountTok(fs[DumpFile], InsertInto("match_lineups")) = 1
  /\ stdout = <<GamesNotFound>>

DumpDone == script = "fix_dump" /\ pc = "done"
OperatorId == Id("operator_id")
OrganizationId == Id("organization_id")

\* C5 as claimed: with n occurrences of "operator_id" in the document, the
\* output of fix_dump holds none, holds exactly n occurrences of
\* "organization_id", and differs from the document nowhere else.
C5_Claimed ==
  DumpDone =>
    LET in == fs[DumpFile]
        out == fs[DumpOut]
    IN /\ CountTok(out, OperatorId) = 0
       /\ CountTok(out, OrganizationId) = CountTok(in, OperatorId)
       /\ Len(out) = Len(in)
       /\ \A i \in 1..Len(in) : out[i] # in[i] => in[i] = OperatorId

\* C5 amended: the output holds no "operator_id"; its occurrences of
\* "organization_id" are the document's occurrences of "operator_id", of
\* "created_by_operator_id" and of "organization_id" itself; and beyond
\* the league_operators header rewritten to the organizations header, the
\* text differs only where one of the three renamed identifiers stood.
C5_Rename ==
  DumpDone =>
    LET in == fs[DumpFile]
        out == fs[DumpOut]
        hdr == ReplaceAll(in, InsertHeader("league_operators", OldOperatorColumns),
                          InsertHeader("organizations", NewOrganizationColumns))
    IN /\ CountTok(out, OperatorId) = 0
       /\ CountTok(out, OrganizationId) =
            CountTok(in, OperatorId) + CountTok(in, Id("created_by_operator_id"))
              + CountTok(in, OrganizationId)
       /\ Len(out) = Len(hdr)
       /\ \A i \in 1..Len(hdr) :
            out[i] # hdr[i] =>
              /\ hdr[i] \in {OperatorId, Id("created_by_operator_id"),
                             Id("assigned_operator_id")}
              /\ out[i] = (IF hdr[i] = Id("assigned_operator_id")
                           THEN Id("assigned_organization_id") ELSE OrganizationId)

C5_Witness ==
  /\ DumpDone
  /\ CountTok(fs[DumpFile], OperatorId) = 2
  /\ CountTok(fs[DumpOut], OrganizationId) = 2

\* The row of the documentation as printed there ('a1','m1', ...) and what
\* the documentation says it becomes; the same row with ", " between all
\* fields and what that becomes.
SpecExampleIn == RowNoTerm("X", GameFields("X")) \o <<",">>
SpecExampleOut == Mapped(SpecExampleIn)
ExampleIn == RowNoTerm("A", GameFields("A")) \o <<",">>
ExampleOut == Mapped(ExampleIn)
AsPrinted(l) == SubSeq(l, 1, Len(l) - 1) = RowNoTerm("X", GameFields("X"))

AnyInsert == {InsertInto(t) : t \in {"match_games", "match_lineups"}}
InsertCount(s) == Cardinality({i \in 1..Len(s) : s[i] \in AnyInsert})
FirstHeader == FindTok(content, InsertInto(Target), 1)
\* The ";" that ends the target statement's last row.
StatementEnd == FindTok(content, ";", FirstHeader)
CommentOrEndAfter(s, e) ==
  \/ Drop(s, e) \in {<<>>, <<NL>>}
  \/ Len(s) >= e + 3 /\ SubSeq(s, e + 1, e + 3) = <<NL, NL, "--">>

\* C9 as claimed: the located block starts at the first INSERT header of
\* the target table, ends at that statement's terminating row and holds no
\* text of another statement, whatever the layout of the document.
C9_Claimed ==
  Located =>
    /\ match.start = FirstHeader
    /\ match.end = StatementEnd
    /\ InsertCount(Block) = 1

\* C9 amended: the block starts at the first INSERT header of the target
\* table.  When the statement's terminating row is followed by a blank line
\* and a "--" comment marker, or by the end of the input, the block ends at
\* that row and holds no other statement; otherwise it runs on past that
\* row, up to the first such place.
C9_Extent ==
  Located =>
    /\ match.start = FirstHeader
    /\ CommentOrEndAfter(content, match.end)
    /\ IF CommentOrEndAfter(content, StatementEnd)
       THEN match.end = StatementEnd /\ InsertCount(Block) = 1
       ELSE /\ match.end > StatementEnd
            /\ \A e \in StatementEnd..(match.end - 1) : ~CommentOrEndAfter(content, e)

C9_Witness ==
  /\ Located
  /\ match.end = StatementEnd
  /\ InsertCount(Block) = 1
  /\ InsertCount(Drop(content, match.end)) = 1

DumpInserts ==
  {InsertInto(t) : t \in {"leagues", "venues", "operator_blackout_preferences",
                          "user_reports", "organization_staff", "league_operators",
                          "organizations"}}

\* The statement that starts at position i of s: up to the next header.
StatementAt(s, i) ==
  LET later == {j \in (i + 1)..Len(s) : s[j] \in DumpInserts}
  IN SubSeq(s, i, IF later = {} THEN Len(s) ELSE Min(later) - 1)

\* C10: in local-data-dump-fixed.sql every INSERT statement declares as
\* many columns as each of its rows has values (as every statement of the
\* input does); in particular the statement rewritten from league_operators
\* to organizations.
C10_Arity ==
  DumpDone =>
    LET out == fs[DumpOut] IN
    \A i \in {j \in 1..Len(out) : out[j] \in DumpInserts} :
      LET st == StatementAt(out, i)
          rs == RowLinesOf(st)
      IN \A k \in 1..Len(rs) : Len(Values(rs[k])) = Len(ColumnsAt(st, 1))
====
